---- MODULE Spec2Model ----
(***************************************************************************)
(* Model of src/browser/web-view.js: the WebView record and its            *)
(* transitions, the thumbnail acquisition started by requestThumbnail and  *)
(* the WebViewBox deck that mounts one content surface (iframe) per view.  *)
(*                                                                         *)
(* One step of the model is one task of the UI event loop: the dispatch    *)
(* of a DOM event to all its listeners, or the completion of an XHR or of  *)
(* a DOMRequest, together with every promise reaction it triggers (the     *)
(* microtask queue drains before the next task runs).                      *)
(***************************************************************************)
EXTENDS Integers, Sequences, FiniteSets, TLC

VARIABLES items, frames, tasks, used, now

vars == <<items, frames, tasks, used, now>>

(***************************************************************************)
(* Bounds of the model.                                                    *)
(***************************************************************************)
MaxViews == 2
MaxTasks == 2
\* Views of the deck that show a page at the same time.
MaxFrames == 1
MaxClock == 2
\* Views that DeckSpec opens in the deck.
MaxDeck == 3

Ids == 1..MaxViews

\* Unset value of a Maybe(String) field (null / undefined).
None == "undefined"

\* Unset value of an `Any` field; a set value v is held as <<v>>.
Nothing == <<>>

Uris == {"http://a.org/", "http://a.org/page", "http://b.org/"}

\* The page a view is opened on, if any.
Home == "http://a.org/"

(***************************************************************************)
(* Collaborators of common/url-helper and ./theme.                         *)
(***************************************************************************)
getDomainName(uri) ==
  IF uri = "http://b.org/" THEN "b.org" ELSE "a.org"

makeTileURI(input) == "tiles/" \o getDomainName(input) \o ".png"

getHardcodedColors(uri) ==
  IF getDomainName(uri) = "b.org"
  THEN [backgroundColor |-> "#000", foregroundColor |-> "#fff", isDark |-> TRUE]
  ELSE [backgroundColor |-> None, foregroundColor |-> None, isDark |-> FALSE]

(***************************************************************************)
(* The WebView record: defaults of every field but `id`.                   *)
(***************************************************************************)
Default ==
  [userInput |-> "",
   zoom |-> 10,
   readyState |-> None,
   isLoading |-> FALSE,
   isConnecting |-> FALSE,
   startLoadingTime |-> -1,
   connectedTime |-> -1,
   endLoadingTime |-> -1,
   isFocused |-> FALSE,
   isActive |-> FALSE,
   isSelected |-> FALSE,
   isPinned |-> FALSE,
   uri |-> None,
   title |-> None,
   icons |-> Nothing,
   meta |-> Nothing,
   backgroundColor |-> None,
   foregroundColor |-> None,
   isDark |-> FALSE,
   securityState |-> "insecure",
   securityExtendedValidation |-> FALSE,
   canGoBack |-> FALSE,
   canGoForward |-> FALSE,
   contentOverflows |-> FALSE,
   thumbnail |-> None]

\* Record(...)(fields): the given fields over the defaults.
WebView(fields) ==
  [k \in DOMAIN Default \cup DOMAIN fields |->
     IF k \in DOMAIN fields THEN fields[k] ELSE Default[k]]

\* state.merge(delta) for the keys of delta that carry a value.
patch(delta, state) ==
  [k \in DOMAIN state |-> IF k \in DOMAIN delta THEN delta[k] ELSE state[k]]

\* state.merge({k: void(0)}) / state.remove(k): a typed record reads an
\* undefined value as the default of the field.
clear(keys, state) ==
  [k \in DOMAIN state |-> IF k \in keys THEN Default[k] ELSE state[k]]

set(field, value, target) == [target EXCEPT ![field] = value]

Transient ==
  {"thumbnail", "readyState", "isLoading", "isConnecting",
   "startLoadingTime", "connectedTime", "endLoadingTime",
   "backgroundColor", "foregroundColor", "isDark",
   "title", "securityState", "securityExtendedValidation",
   "canGoBack", "canGoForward"}

\* A projection that asks a loaded view to reload once it is restored.
persistentReload(state) ==
  patch([readyState |-> IF state.readyState = "loaded"
                        THEN "reload" ELSE None],
        clear(Transient, state))

\* A projection that keeps the title of the page.
persistentTitled(state) == clear(Transient \ {"title"}, state)

\* A projection that keeps isConnecting.
persistentConnecting(state) == clear(Transient \ {"isConnecting"}, state)

persistent(state) == clear(Transient, state)

\* WebView.open: uuid() is the fresh id chosen by the caller of open.
open(id, state) == WebView([id |-> id] @@ state)

reload(state) == patch([readyState |-> "reload"], state)
stop(state) == patch([readyState |-> "stop"], state)
goBack(state) == patch([readyState |-> "goBack"], state)
goForward(state) == patch([readyState |-> "goForward"], state)

(***************************************************************************)
(* Zoom, in tenths: 0.5 is 5, 2 is 20, the step 0.1 is 1.                  *)
(***************************************************************************)
ZOOM_MIN == 5
ZOOM_MAX == 20
ZOOM_STEP == 1

Min(a, b) == IF a < b THEN a ELSE b
Max(a, b) == IF a > b THEN a ELSE b

\* A zoomIn that misses the clamp.
zoomInUnclamped(value) == value + ZOOM_STEP

zoomInValue(value) == Min(ZOOM_MAX, value + ZOOM_STEP)
zoomOutValue(value) == Max(ZOOM_MIN, value - ZOOM_STEP)

zoomIn(state) == [state EXCEPT !.zoom = zoomInValue(@)]
zoomOut(state) == [state EXCEPT !.zoom = zoomOutValue(@)]
zoomReset(state) == clear({"zoom"}, state)

setMetaData(value, state) == set("meta", value, state)
setTitle(value, state) == set("title", value, state)
setCanGoBack(value, state) == set("canGoBack", value, state)
setCanGoForward(value, state) == set("canGoForward", value, state)
setContentOverflows(value, state) == set("contentOverflows", value, state)

startLoad(state) ==
  patch([readyState |-> "loading",
         isLoading |-> TRUE,
         isConnecting |-> TRUE,
         startLoadingTime |-> now],
        clear({"icons", "thumbnail", "title", "securityState",
               "securityExtendedValidation", "canGoBack", "canGoForward"},
              state))

\* An endLoad that leaves isConnecting alone.
endLoadConnecting(state) ==
  patch([endLoadingTime |-> now,
         readyState |-> "loaded",
         isLoading |-> FALSE], state)

\* An endLoad that does not read the clock.
endLoadUntimed(state) ==
  patch([isConnecting |-> FALSE,
         readyState |-> "loaded",
         isLoading |-> FALSE], state)

endLoad(state) ==
  patch([isConnecting |-> FALSE,
         endLoadingTime |-> now,
         readyState |-> "loaded",
         isLoading |-> FALSE], state)

\* A changeProgress that does not look at isConnecting.
changeProgressUnguarded(state) ==
  patch([isConnecting |-> FALSE, connectedTime |-> now], state)

changeProgress(state) ==
  IF ~state.isConnecting THEN state
  ELSE patch([isConnecting |-> FALSE, connectedTime |-> now], state)

changeLocation(value, state) ==
  patch(getHardcodedColors(value),
        patch([uri |-> value,
               readyState |-> IF state.isLoading THEN "loading" ELSE "loaded",
               userInput |-> value], state))

\* A changeIcon that always starts a map of its own.
changeIconFresh(icon, state) ==
  set("icons", <<(icon.href :> icon)>>, state)

\* The map of icons is held as <<map>>, a function from href to icon.
changeIcon(icon, state) ==
  IF state.icons # Nothing
  THEN set("icons",
           <<[href \in DOMAIN state.icons[1] \cup {icon.href} |->
                IF href = icon.href THEN icon ELSE state.icons[1][href]]>>,
           state)
  ELSE set("icons", <<(icon.href :> icon)>>, state)

changeSecurity(security, state) ==
  patch([securityState |-> security.state,
         securityExtendedValidation |-> security.extendedValidation], state)

\* URL.createObjectURL(blob): a url that stands for the blob.
createObjectURL(blob) == "blob:" \o blob

setThumbnail(blob, state) == set("thumbnail", createObjectURL(blob), state)

(***************************************************************************)
(* Promises.  A promise is pending, resolved or rejected with a value; a   *)
(* promise that does not exist yet is unused.                              *)
(***************************************************************************)
Pending == [state |-> "pending", value |-> ""]
Unused == [state |-> "unused", value |-> ""]
resolve(value) == [state |-> "resolved", value |-> value]
reject(value) == [state |-> "rejected", value |-> value]

isSettled(p) == p.state \in {"resolved", "rejected"}

\* fromEvent(target, type) of lang/promise: the promise resolves with the
\* first event of the type that the target emits after the call.
fromEvent(promise, event) ==
  IF isSettled(promise) THEN promise ELSE resolve(event)

\* A race that leaves out its first promise.
raceSecond(p, q) == IF isSettled(q) THEN q ELSE Pending

\* A race that lists its promises the other way round.
raceReversed(p, q) ==
  IF isSettled(q) THEN q ELSE IF isSettled(p) THEN p ELSE Pending

\* Promise.race([p, q]): the first to settle; the reactions of promises
\* that are already settled run in the order of the array.
race(p, q) ==
  IF isSettled(p) THEN p ELSE IF isSettled(q) THEN q ELSE Pending

\* A handler that runs however the promise settles.
caughtAlways(p) == isSettled(p)

\* A rejection handler that is never run.
caughtNever(p) == FALSE

\* promise.catch(handler) runs the handler for a rejected promise only.
caught(p) == p.state = "rejected"

\* A handler that is also given as the rejection handler.
fulfilledAlways(p) == isSettled(p)

\* promise.then(handler) runs the handler for a resolved promise only.
fulfilled(p) == p.state = "resolved"

(***************************************************************************)
(* Editing the deck.  The edit handed to a view is In(index) over items:  *)
(* the view at index is replaced by edited, the edit applied to it.  An    *)
(* edit of a missing index throws inside the handler and changes nothing.  *)
(***************************************************************************)
In(index, edited, state) ==
  IF index \in DOMAIN state
  THEN [state EXCEPT ![index] = edited]
  ELSE state

indexOf(state, id) == CHOOSE i \in DOMAIN state : state[i].id = id

\* A render that mounts an iframe for a view without uri too.
renderAll(state) ==
  [id \in {state[i].id : i \in DOMAIN state} |->
     [uri |-> state[indexOf(state, id)].uri,
      edit |-> indexOf(state, id)]]

\* WebViewBox.render / WebView.render: one iframe per view that has a uri,
\* keyed by the id of the view, with the uri attribute of the view and the
\* edit scoped to the index of the view in items.
render(state) ==
  [id \in {state[i].id : i \in {j \in DOMAIN state : state[j].uri # None}} |->
     [uri |-> state[indexOf(state, id)].uri,
      edit |-> indexOf(state, id)]]

\* A deck mounted in the order of the tabs.
sortByOrder(state) == state

\* items.sortBy(id): the views in ascending order of id; views of equal
\* key keep their order.
sortBy(state) ==
  LET rank(i) == Cardinality({j \in DOMAIN state :
                                \/ state[j].id < state[i].id
                                \/ state[j].id = state[i].id /\ j < i}) + 1
  IN [k \in DOMAIN state |-> state[CHOOSE i \in DOMAIN state : rank(i) = k]]

\* items.indexOf(webView): the first position of a view equal to webView.
indexOfView(state, webView) ==
  CHOOSE i \in DOMAIN state :
    /\ state[i] = webView
    /\ \A j \in DOMAIN state : state[j] = webView => i <= j

\* The children of the deck in the order WebViewBox.render makes them: for
\* every view of items.sortBy(id) its key, its uri (a view without uri
\* renders null) and the position its edit is scoped to.
mounted(state) ==
  [k \in DOMAIN state |->
     [key |-> sortBy(state)[k].id,
      uri |-> sortBy(state)[k].uri,
      edit |-> indexOfView(state, sortBy(state)[k])]]

(***************************************************************************)
(* requestThumbnail(iframe): the acquisition started on the iframe.        *)
(*   abort           fromEvent(iframe, 'mozbrowserlocationchange') turned  *)
(*                   into a rejection                                      *)
(*   loaded          fromEvent(iframe, 'mozbrowserloadend')                *)
(*   fetchThumbnail  the XHR for the tile of the uri attribute             *)
(*   raced           Promise.race([abort, loaded]) of the catch handler    *)
(*   fetchScreenshot the DOMRequest of iframe.getScreenshot                *)
(*   thumbnail       fetchThumbnail(...).catch(...)                        *)
(*   result          Promise.race([abort, thumbnail])                      *)
(* edit is the edit the handler of the event closes over; detail records   *)
(* the uri of the event that started the task; captures counts the calls   *)
(* of getScreenshot and applied the calls of onThumbnailChanged.           *)
(***************************************************************************)
requestThumbnail(iframe, uri, edit, detail) ==
  [iframe |-> iframe,
   uri |-> uri,
   edit |-> edit,
   detail |-> detail,
   abort |-> Pending,
   loaded |-> Pending,
   fetchThumbnail |-> Pending,
   raced |-> Unused,
   fetchScreenshot |-> Unused,
   thumbnail |-> Pending,
   result |-> Pending,
   captures |-> 0,
   applied |-> 0]

\* The reactions that run once abort, loaded, fetchThumbnail or
\* fetchScreenshot of the task has changed.
settle(task) ==
  LET raced == IF caught(task.fetchThumbnail) /\ ~isSettled(task.raced)
               THEN race(task.abort, task.loaded)
               ELSE task.raced
      capture == fulfilled(raced) /\ task.fetchScreenshot.state = "unused"
      fetchScreenshot == IF capture THEN Pending ELSE task.fetchScreenshot
      thumbnail == IF fulfilled(task.fetchThumbnail) THEN task.fetchThumbnail
                   ELSE IF caught(raced) THEN raced
                   ELSE IF isSettled(fetchScreenshot) THEN fetchScreenshot
                   ELSE Pending
      result == IF isSettled(task.result) THEN task.result
                ELSE race(task.abort, thumbnail)
  IN [task EXCEPT !.raced = raced,
                  !.fetchScreenshot = fetchScreenshot,
                  !.captures = IF capture THEN @ + 1 ELSE @,
                  !.thumbnail = thumbnail,
                  !.result = result,
                  !.applied = IF ~isSettled(task.result) /\ fulfilled(result)
                              THEN @ + 1 ELSE @]

\* requestThumbnail(...).then(WebView.onThumbnailChanged(edit)) for the
\* tasks from..Len(after) whose result settled between before and after.
RECURSIVE onThumbnailChanged(_, _, _, _)
onThumbnailChanged(state, before, after, from) ==
  IF from > Len(after) THEN state
  ELSE onThumbnailChanged(
         IF after[from].applied >
              (IF from \in DOMAIN before THEN before[from].applied ELSE 0)
         THEN In(after[from].edit,
                 setThumbnail(after[from].result.value,
                              state[after[from].edit]),
                 state)
         ELSE state,
         before, after, from + 1)

(***************************************************************************)
(* Initial state: an empty deck.                                           *)
(***************************************************************************)
Init ==
  /\ items = <<>>
  /\ frames = render(<<>>)
  /\ tasks = <<>>
  /\ used = {}
  /\ now = 0

\* Every step ends with the deck rendered again and the results of the
\* settled tasks applied.
Commit(state, after) ==
  LET edited == onThumbnailChanged(state, tasks, after, 1)
  IN /\ items' = edited
     /\ frames' = render(edited)
     /\ tasks' = after
     /\ now' = now

(***************************************************************************)
(* The deck is edited by the tab management around it: a view is opened,   *)
(* closed, or moved in the order of the tabs.                              *)
(***************************************************************************)
Opened(id, uri) ==
  /\ id \notin used
  /\ used' = used \cup {id}
  /\ Commit(Append(items, open(id, [uri |-> uri])), tasks)

Open(id, uri) ==
  /\ uri # None => Cardinality(DOMAIN frames) < MaxFrames
  /\ Opened(id, uri)

Close(index) ==
  /\ index \in DOMAIN items
  /\ used' = used
  /\ Commit([i \in 1..(Len(items) - 1) |->
               IF i < index THEN items[i] ELSE items[i + 1]], tasks)

Move(index) ==
  /\ index \in DOMAIN items
  /\ index + 1 \in DOMAIN items
  /\ used' = used
  /\ Commit([items EXCEPT ![index] = items[index + 1],
                          ![index + 1] = items[index]], tasks)

(***************************************************************************)
(* Events of a mounted iframe.                                             *)
(***************************************************************************)
onLoadStart(iframe) ==
  /\ iframe \in DOMAIN frames
  /\ used' = used
  /\ Commit(In(frames[iframe].edit, startLoad(items[frames[iframe].edit]),
               items), tasks)

\* mozbrowserloadend: the handler of the view, then the loaded promise of
\* every task that listens on the iframe.
onLoadEnd(iframe) ==
  /\ iframe \in DOMAIN frames
  /\ used' = used
  /\ Commit(In(frames[iframe].edit, endLoad(items[frames[iframe].edit]),
               items),
            [t \in DOMAIN tasks |->
               IF tasks[t].iframe = iframe /\ ~isSettled(tasks[t].loaded)
               THEN settle([tasks[t] EXCEPT
                              !.loaded = fromEvent(tasks[t].loaded, "loadend")])
               ELSE tasks[t]])

\* edit(WebView.changeLocation(event.detail)) of the handler of the view.
changedLocation(iframe, detail) ==
  In(frames[iframe].edit,
     changeLocation(detail, items[frames[iframe].edit]), items)

\* mozbrowserlocationchange: the handler of the view edits the location and
\* starts a task that looks up the tile of uri; then the abort promise of
\* every task that was already listening rejects.  The listeners the new
\* task adds are not called for the event that is being dispatched.
dispatchLocationChange(iframe, detail, uri) ==
  /\ Len(tasks) < MaxTasks
  /\ used' = used
  /\ Commit(changedLocation(iframe, detail),
            Append([t \in DOMAIN tasks |->
                      IF tasks[t].iframe = iframe
                         /\ ~isSettled(tasks[t].abort)
                      THEN settle([tasks[t] EXCEPT !.abort =
                             reject(fromEvent(tasks[t].abort,
                                              "locationchange").value)])
                      ELSE tasks[t]],
                   requestThumbnail(iframe, uri, frames[iframe].edit,
                                    detail)))

\* A handler that reads the uri attribute before the edit is rendered.
onLocationChangeStale(iframe, detail) ==
  /\ iframe \in DOMAIN frames
  /\ dispatchLocationChange(iframe, detail, frames[iframe].uri)

\* iframe.getAttribute('uri') is read after the edit: the deck is rendered
\* again by the edit, so the attribute is the uri of the event.
onLocationChange(iframe, detail) ==
  /\ iframe \in DOMAIN frames
  /\ dispatchLocationChange(iframe, detail,
       render(changedLocation(iframe, detail))[iframe].uri)

(***************************************************************************)
(* Completion of the XHR of fetchThumbnail and of the DOMRequest of        *)
(* fetchScreenshot.                                                        *)
(***************************************************************************)
\* request.onload with status 200: the tile of the domain is the response.
onload(t) ==
  /\ t \in DOMAIN tasks
  /\ tasks[t].fetchThumbnail.state = "pending"
  /\ used' = used
  /\ Commit(items,
            [tasks EXCEPT ![t] = settle([tasks[t] EXCEPT !.fetchThumbnail =
                                           resolve(makeTileURI(tasks[t].uri))])])

\* request.onload with another status, or request.onerror.
onerror(t) ==
  /\ t \in DOMAIN tasks
  /\ tasks[t].fetchThumbnail.state = "pending"
  /\ used' = used
  /\ Commit(items,
            [tasks EXCEPT ![t] = settle([tasks[t] EXCEPT !.fetchThumbnail =
                                           reject("Not Found")])])

\* The DOMRequest of getScreenshot succeeds with a picture of the page.
onsuccess(t) ==
  /\ t \in DOMAIN tasks
  /\ tasks[t].fetchScreenshot.state = "pending"
  /\ used' = used
  /\ Commit(items,
            [tasks EXCEPT ![t] = settle([tasks[t] EXCEPT !.fetchScreenshot =
                                           resolve("screenshot.png")])])

\* The DOMRequest of getScreenshot fails.
onfailure(t) ==
  /\ t \in DOMAIN tasks
  /\ tasks[t].fetchScreenshot.state = "pending"
  /\ used' = used
  /\ Commit(items,
            [tasks EXCEPT ![t] = settle([tasks[t] EXCEPT !.fetchScreenshot =
                                           reject("error")])])

\* The steps of the deck.  Its timestamps are all taken at one reading of
\* the clock; ViewSpec below lets the clock advance.
Next ==
  \/ \E id \in Ids, uri \in {None, Home} : Open(id, uri)
  \/ \E index \in 1..MaxViews : Close(index)
  \/ \E index \in 1..MaxViews : Move(index)
  \/ \E iframe \in Ids : onLoadStart(iframe)
  \/ \E iframe \in Ids : onLoadEnd(iframe)
  \/ \E iframe \in Ids, detail \in Uris : onLocationChange(iframe, detail)
  \/ \E t \in 1..MaxTasks : onload(t)
  \/ \E t \in 1..MaxTasks : onerror(t)
  \/ \E t \in 1..MaxTasks : onsuccess(t)
  \/ \E t \in 1..MaxTasks : onfailure(t)

Spec == Init /\ [][Next]_vars

(***************************************************************************)
(* The transitions of one view on their own: a deck of a single view that  *)
(* is edited by every transition while the clock of performance.now()      *)
(* advances.                                                               *)
(***************************************************************************)
ViewInit ==
  /\ \E zoom \in ZOOM_MIN..ZOOM_MAX, uri \in {None, Home} :
       items = <<open(1, [zoom |-> zoom, uri |-> uri])>>
  /\ frames = render(items)
  /\ tasks = <<>>
  /\ used = {1}
  /\ now = 0

Tick ==
  /\ now < MaxClock
  /\ now' = now + 1
  /\ UNCHANGED <<items, frames, tasks, used>>

Edit(state) ==
  /\ items' = state
  /\ frames' = render(state)
  /\ UNCHANGED <<tasks, used, now>>

ZoomIn == Edit(In(1, zoomIn(items[1]), items))
ZoomOut == Edit(In(1, zoomOut(items[1]), items))
ZoomReset == Edit(In(1, zoomReset(items[1]), items))
StartLoad == Edit(In(1, startLoad(items[1]), items))
EndLoad == Edit(In(1, endLoad(items[1]), items))
ChangeProgress == Edit(In(1, changeProgress(items[1]), items))
ChangeLocation(value) ==
  Edit(In(1, changeLocation(value, items[1]), items))
Reload == Edit(In(1, reload(items[1]), items))
Stop == Edit(In(1, stop(items[1]), items))
GoBack == Edit(In(1, goBack(items[1]), items))
GoForward == Edit(In(1, goForward(items[1]), items))
Persistent == Edit(In(1, persistent(items[1]), items))

ViewNext ==
  \/ Tick
  \/ ZoomIn
  \/ ZoomOut
  \/ ZoomReset
  \/ StartLoad
  \/ EndLoad
  \/ ChangeProgress
  \/ \E value \in Uris : ChangeLocation(value)
  \/ Reload
  \/ Stop
  \/ GoBack
  \/ GoForward
  \/ Persistent

ViewSpec == ViewInit /\ [][ViewNext]_vars

(***************************************************************************)
(* The transitions of one view that the events of its page drive: the load *)
(* cycle, the commands, the field setters and the persistent projection,   *)
(* all at one reading of the clock.  The view is opened on Home with the   *)
(* flags and the zoom the caller of open chooses.                          *)
(***************************************************************************)
Icon == [href |-> "a.ico", sizes |-> "16"]

Security == [state |-> "secure", extendedValidation |-> TRUE]

PageInit ==
  /\ \E flag \in BOOLEAN :
       items = <<open(1, [uri |-> Home,
                          zoom |-> IF flag THEN ZOOM_MAX ELSE 10,
                          isPinned |-> flag,
                          isFocused |-> flag,
                          isActive |-> flag,
                          isSelected |-> flag])>>
  /\ frames = render(items)
  /\ tasks = <<>>
  /\ used = {1}
  /\ now = 0

SetMetaData(value) == Edit(In(1, setMetaData(value, items[1]), items))
SetTitle(value) == Edit(In(1, setTitle(value, items[1]), items))
SetCanGoBack(value) == Edit(In(1, setCanGoBack(value, items[1]), items))
SetCanGoForward(value) ==
  Edit(In(1, setCanGoForward(value, items[1]), items))
SetContentOverflows(value) ==
  Edit(In(1, setContentOverflows(value, items[1]), items))
ChangeIcon(icon) == Edit(In(1, changeIcon(icon, items[1]), items))
ChangeSecurity(security) ==
  Edit(In(1, changeSecurity(security, items[1]), items))
ThumbnailChanged(blob) == Edit(In(1, setThumbnail(blob, items[1]), items))

PageNext ==
  \/ StartLoad
  \/ EndLoad
  \/ ChangeProgress
  \/ ChangeLocation("http://b.org/")
  \/ Reload
  \/ Stop
  \/ GoBack
  \/ GoForward
  \/ Persistent
  \/ SetMetaData(<<"viewport">>)
  \/ SetTitle("A page")
  \/ \E value \in BOOLEAN : SetCanGoBack(value)
  \/ \E value \in BOOLEAN : SetCanGoForward(value)
  \/ \E value \in BOOLEAN : SetContentOverflows(value)
  \/ ChangeIcon(Icon)
  \/ ChangeSecurity(Security)
  \/ ThumbnailChanged("screenshot.png")

PageSpec == PageInit /\ [][PageNext]_vars

(***************************************************************************)
(* The icons of one view: iconchange events between the loads of a page.   *)
(***************************************************************************)
Icons ==
  {[href |-> "a.ico", sizes |-> "16"],
   [href |-> "a.ico", sizes |-> "32"],
   [href |-> "b.ico", sizes |-> "16"]}

IconInit ==
  /\ items = <<open(1, [uri |-> Home])>>
  /\ frames = render(items)
  /\ tasks = <<>>
  /\ used = {1}
  /\ now = 0

IconNext ==
  \/ StartLoad
  \/ ChangeProgress
  \/ EndLoad
  \/ \E value \in Uris : ChangeLocation(value)
  \/ \E icon \in Icons : ChangeIcon(icon)

IconSpec == IconInit /\ [][IconNext]_vars

(***************************************************************************)
(* The deck on its own: views are opened, closed and moved in the order of *)
(* the tabs, any number of them showing a page.                            *)
(***************************************************************************)
DeckNext ==
  \/ \E id \in 1..MaxDeck, uri \in {None, Home} : Opened(id, uri)
  \/ \E index \in 1..MaxDeck : Close(index)
  \/ \E index \in 1..MaxDeck : Move(index)

DeckSpec == Init /\ [][DeckNext]_vars

(***************************************************************************)
(* The iframe of one view that shows a page, with its events and the       *)
(* tasks they start.  The XHR of a lookup and the DOMRequest of a capture  *)
(* complete in the end, one way or the other; nothing makes the page load  *)
(* or navigate.                                                            *)
(***************************************************************************)
SurfaceInit ==
  /\ items = <<open(1, [uri |-> Home])>>
  /\ frames = render(items)
  /\ tasks = <<>>
  /\ used = {1}
  /\ now = 0

SurfaceNext ==
  \/ onLoadStart(1)
  \/ onLoadEnd(1)
  \/ \E detail \in Uris : onLocationChange(1, detail)
  \/ \E t \in 1..MaxTasks : onload(t)
  \/ \E t \in 1..MaxTasks : onerror(t)
  \/ \E t \in 1..MaxTasks : onsuccess(t)
  \/ \E t \in 1..MaxTasks : onfailure(t)

FairSpec ==
  /\ SurfaceInit
  /\ [][SurfaceNext]_vars
  /\ \A t \in 1..MaxTasks : WF_vars(onload(t) \/ onerror(t))
  /\ \A t \in 1..MaxTasks : WF_vars(onsuccess(t) \/ onfailure(t))

(***************************************************************************)
(* Properties of the thumbnail acquisition.                                *)
(***************************************************************************)

\* C1: once a locationchange has fired on the iframe of a task after the
\* task started (its abort is rejected), no step invokes
\* onThumbnailChanged for the task, whatever completes afterwards.
AbortPreempts ==
  [][\A t \in DOMAIN tasks :
       tasks'[t].abort.state = "rejected" =>
         tasks'[t].applied = tasks[t].applied]_vars

\* The tile arrived after the locationchange and was not applied.
AbortPreemptsWitness ==
  \E t \in DOMAIN tasks :
    /\ tasks[t].abort.state = "rejected"
    /\ tasks[t].fetchThumbnail.state = "resolved"
    /\ tasks[t].result.state = "rejected"
    /\ tasks[t].applied = 0

\* C2: a lookup that resolves with a tile before any locationchange makes
\* the tile the result of the task, which stays the result, and the task
\* never requests a screenshot, whenever loadend fires.
CachedWins ==
  /\ [](\A t \in DOMAIN tasks :
          tasks[t].fetchThumbnail.state = "resolved" =>
            /\ tasks[t].captures = 0
            /\ tasks[t].fetchScreenshot.state = "unused")
  /\ [][\A t \in DOMAIN tasks :
          /\ tasks[t].fetchThumbnail.state = "pending"
          /\ tasks'[t].fetchThumbnail.state = "resolved"
          /\ tasks[t].abort.state = "pending"
          => /\ tasks'[t].result = tasks'[t].fetchThumbnail
             /\ tasks'[t].applied = tasks[t].applied + 1]_vars
  /\ [][\A t \in DOMAIN tasks :
          tasks[t].result.state \in {"resolved", "rejected"} =>
            tasks'[t].result = tasks[t].result]_vars

\* The tile is the result of a task that has also seen loadend.
CachedWinsWitness ==
  \E t \in DOMAIN tasks :
    /\ tasks[t].fetchThumbnail.state = "resolved"
    /\ tasks[t].loaded.state = "resolved"
    /\ tasks[t].result = tasks[t].fetchThumbnail
    /\ tasks[t].captures = 0

\* C3: a task requests a screenshot at most once, only after its lookup
\* failed and a loadend fired since it started, and never once a
\* locationchange has fired since it started; a screenshot that arrives
\* before any locationchange is the result of the task.
CaptureOnce ==
  /\ [](\A t \in DOMAIN tasks :
          /\ tasks[t].captures <= 1
          /\ tasks[t].captures = 1 =>
               /\ tasks[t].fetchThumbnail.state = "rejected"
               /\ tasks[t].loaded.state = "resolved")
  /\ [][\A t \in DOMAIN tasks :
          tasks'[t].abort.state = "rejected" =>
            tasks'[t].captures = tasks[t].captures]_vars
  /\ [][\A t \in DOMAIN tasks :
          /\ tasks[t].fetchScreenshot.state = "pending"
          /\ tasks'[t].fetchScreenshot.state = "resolved"
          /\ tasks'[t].abort.state = "pending"
          => /\ tasks'[t].result = tasks'[t].fetchScreenshot
             /\ tasks'[t].applied = tasks[t].applied + 1]_vars

\* One task has its screenshot as result; another saw loadend and
\* locationchange before its lookup failed and requested none.
CaptureOnceWitness ==
  /\ \E t \in DOMAIN tasks :
       /\ tasks[t].captures = 1
       /\ tasks[t].result = [state |-> "resolved", value |-> "screenshot.png"]
  /\ \E t \in DOMAIN tasks :
       /\ tasks[t].fetchThumbnail.state = "rejected"
       /\ tasks[t].loaded.state = "resolved"
       /\ tasks[t].abort.state = "rejected"
       /\ tasks[t].captures = 0

\* C4: a step in which a task ends cancelled or failed does not invoke
\* onThumbnailChanged: the deck is left as it was, or as the changeLocation
\* of the event that cancelled the task made it, and no thumbnail changes.
FailureIsSilent ==
  [][\A t \in DOMAIN tasks :
       /\ tasks[t].result.state = "pending"
       /\ tasks'[t].result.state = "rejected"
       => /\ tasks'[t].applied = tasks[t].applied
          /\ \A i \in DOMAIN items :
               /\ i \in DOMAIN items'
               /\ items'[i].thumbnail = items[i].thumbnail
          /\ \/ items' = items
             \/ /\ tasks[t].iframe \in DOMAIN frames
                /\ \E detail \in Uris :
                     LET i == frames[tasks[t].iframe].edit
                         colors == getHardcodedColors(detail)
                     IN items' = [items EXCEPT ![i] =
                          [items[i] EXCEPT
                             !.uri = detail,
                             !.userInput = detail,
                             !.readyState = IF items[i].isLoading
                                            THEN "loading" ELSE "loaded",
                             !.backgroundColor = colors.backgroundColor,
                             !.foregroundColor = colors.foregroundColor,
                             !.isDark = colors.isDark]]]_vars

\* The screenshot of a task failed while a view has a thumbnail, and a
\* task was cancelled before its lookup returned.
FailureIsSilentWitness ==
  /\ \E t \in DOMAIN tasks :
       /\ tasks[t].fetchScreenshot.state = "rejected"
       /\ tasks[t].result.state = "rejected"
       /\ tasks[t].abort.state = "pending"
  /\ \E t \in DOMAIN tasks :
       /\ tasks[t].abort.state = "rejected"
       /\ tasks[t].result.state = "rejected"

(***************************************************************************)
(* Properties of the deck.                                                 *)
(***************************************************************************)

\* C5: the step that applies the result of a task sets the thumbnail of
\* the view whose iframe started the task, if the view is still in the
\* deck, and changes the thumbnail of no other view.
ThumbnailOfOwner ==
  [][\A t \in DOMAIN tasks :
       tasks'[t].applied > tasks[t].applied =>
         \A i \in DOMAIN items :
           /\ i \in DOMAIN items'
           /\ items[i].id = tasks[t].iframe =>
                items'[i].thumbnail = "blob:" \o tasks'[t].result.value
           /\ items[i].id # tasks[t].iframe =>
                items'[i].thumbnail = items[i].thumbnail]_vars

\* C6: whenever two tasks were started on the same iframe the older one
\* is settled, so at most one task per iframe is live, and the result of a
\* task is never applied once a newer task has started on its iframe.
OneLiveTask ==
  /\ [](\A t \in DOMAIN tasks : \A u \in DOMAIN tasks :
          t < u /\ tasks[t].iframe = tasks[u].iframe =>
            tasks[t].result.state \in {"resolved", "rejected"})
  /\ [][\A t \in DOMAIN tasks :
          tasks'[t].applied > tasks[t].applied =>
            \A u \in DOMAIN tasks' :
              u > t => tasks'[u].iframe # tasks'[t].iframe]_vars

\* The older task of an iframe was cancelled by the locationchange that
\* started the newer one, which is live.
OneLiveTaskWitness ==
  \E t \in DOMAIN tasks : \E u \in DOMAIN tasks :
    /\ t < u
    /\ tasks[t].iframe = tasks[u].iframe
    /\ tasks[t].abort.state = "rejected"
    /\ tasks[t].result.state = "rejected"
    /\ tasks[u].result.state = "pending"

\* C7 as stated: every loadend applies endLoad to the view and starts a
\* task on the iframe.
LoadEndStartsTask ==
  [][\A iframe \in Ids :
       onLoadEnd(iframe) =>
         /\ items'[frames[iframe].edit].isLoading = FALSE
         /\ items'[frames[iframe].edit].readyState = "loaded"
         /\ Len(tasks') = Len(tasks) + 1]_vars

\* C7 as amended: every loadend applies endLoad to the view and starts no
\* task; only a locationchange starts a task.
LoadEndOnlyEndsLoad ==
  /\ [][\A iframe \in Ids :
          onLoadEnd(iframe) =>
            /\ items'[frames[iframe].edit].isLoading = FALSE
            /\ items'[frames[iframe].edit].isConnecting = FALSE
            /\ items'[frames[iframe].edit].readyState = "loaded"
            /\ items'[frames[iframe].edit].endLoadingTime = now
            /\ Len(tasks') = Len(tasks)]_vars
  /\ [][Len(tasks') # Len(tasks) =>
          /\ Len(tasks') = Len(tasks) + 1
          /\ \E iframe \in Ids : \E detail \in Uris :
               /\ iframe \in DOMAIN frames
               /\ items'[frames[iframe].edit].uri = detail
               /\ tasks'[Len(tasks')].iframe = iframe
               /\ tasks'[Len(tasks')].detail = detail]_vars

\* A load has ended on a view and no task was ever started.
LoadEndOnlyEndsLoadWitness ==
  /\ tasks = <<>>
  /\ \E i \in DOMAIN items :
       /\ items[i].readyState = "loaded"
       /\ items[i].endLoadingTime = now
       /\ items[i].startLoadingTime = now

NoUriNoFrame ==
  \A i \in DOMAIN items :
    items[i].uri = None =>
      /\ items[i].id \notin DOMAIN frames
      /\ \A t \in DOMAIN tasks : tasks[t].iframe # items[i].id

\* A view without uri sits in the deck next to a view with a live task.
NoUriNoFrameWitness ==
  /\ \E i \in DOMAIN items : items[i].uri = None
  /\ \E i \in DOMAIN items : \E t \in DOMAIN tasks :
       /\ tasks[t].iframe = items[i].id
       /\ tasks[t].result.state = "pending"

(***************************************************************************)
(* Properties of the transitions of a view.                                *)
(***************************************************************************)

\* C10: zoom stays within 5..20 (0.5 to 2.0 in tenths); zoomIn at 20 and
\* zoomOut at 5 leave the view as it is, zoomIn and zoomOut stay in range
\* and move by one step otherwise, and zoomReset yields 10.
ZoomInRange ==
  \A i \in DOMAIN items :
    /\ items[i].zoom \in 5..20
    /\ zoomIn(items[i]).zoom \in 5..20
    /\ zoomOut(items[i]).zoom \in 5..20
    /\ items[i].zoom = 20 => zoomIn(items[i]) = items[i]
    /\ items[i].zoom = 5 => zoomOut(items[i]) = items[i]
    /\ items[i].zoom < 20 => zoomIn(items[i]).zoom = items[i].zoom + 1
    /\ items[i].zoom > 5 => zoomOut(items[i]).zoom = items[i].zoom - 1
    /\ zoomReset(items[i]).zoom = 10

\* The view is at the largest zoom after a load has ended.
ZoomInRangeWitness ==
  /\ items[1].zoom = 20
  /\ items[1].readyState = "loaded"
  /\ items[1].endLoadingTime > items[1].startLoadingTime
  /\ items[1].startLoadingTime > 0

\* C11: with the clock never running backwards, an endLoad of a view that
\* has seen startLoad (and no persistent since) leaves isLoading and
\* isConnecting false, readyState loaded and endLoadingTime at or after
\* startLoadingTime.
LoadCycleEnds ==
  [][EndLoad /\ items[1].startLoadingTime # -1 =>
       /\ items'[1].isLoading = FALSE
       /\ items'[1].isConnecting = FALSE
       /\ items'[1].readyState = "loaded"
       /\ items'[1].endLoadingTime >= items'[1].startLoadingTime]_vars

\* A load started, connected later and ended later still.
LoadCycleEndsWitness ==
  /\ items[1].readyState = "loaded"
  /\ items[1].isLoading = FALSE
  /\ items[1].startLoadingTime >= 0
  /\ items[1].connectedTime > items[1].startLoadingTime
  /\ items[1].endLoadingTime > items[1].connectedTime

\* C12: changeProgress returns the view as it is whenever isConnecting is
\* false; isConnecting becomes true by startLoad only, and connectedTime
\* is written only by the step that takes isConnecting from true to false
\* (apart from the reset of persistent), so at most once between two
\* startLoad and never after endLoad.
ProgressOnce ==
  /\ [](~items[1].isConnecting => changeProgress(items[1]) = items[1])
  /\ [](endLoad(items[1]).isConnecting = FALSE)
  /\ [][items'[1].isConnecting /\ ~items[1].isConnecting =>
          items'[1] = startLoad(items[1])]_vars
  /\ [][items'[1].connectedTime # items[1].connectedTime =>
          \/ /\ items[1].isConnecting
             /\ ~items'[1].isConnecting
             /\ items'[1].connectedTime = now
          \/ /\ items'[1].connectedTime = -1
             /\ items'[1].isLoading = FALSE
             /\ items'[1].startLoadingTime = -1]_vars

\* The load is still going on, the first progress signal was taken at an
\* earlier time than now.
ProgressOnceWitness ==
  /\ items[1].isLoading
  /\ ~items[1].isConnecting
  /\ items[1].connectedTime >= 0
  /\ items[1].connectedTime < now

\* C20: in a view that is not loading, connectedTime is -1 or lies between
\* startLoadingTime and endLoadingTime.
ConnectedWithinLoad ==
  items[1].isLoading = FALSE =>
    \/ items[1].connectedTime = -1
    \/ /\ items[1].startLoadingTime <= items[1].connectedTime
       /\ items[1].connectedTime <= items[1].endLoadingTime

\* C13: persistent is idempotent on every state of a view.
IdempotentProjection ==
  persistent(persistent(items[1])) = persistent(items[1])

\* A loaded page with title, thumbnail and dark colors: persistent has
\* something to strip.
IdempotentProjectionWitness ==
  /\ items[1].readyState = "loaded"
  /\ items[1].title # None
  /\ items[1].thumbnail # None
  /\ items[1].isDark
  /\ persistent(items[1]) # items[1]

\* C14 as stated: persistent resets thumbnail, readyState, isLoading,
\* isConnecting, the three timestamps, the two colors, title, the two
\* security fields, canGoBack and canGoForward, and no other field.
ResetsListedOnly ==
  LET s == items[1]
      p == persistent(items[1])
      Listed == {"thumbnail", "readyState", "isLoading", "isConnecting",
                 "startLoadingTime", "connectedTime", "endLoadingTime",
                 "backgroundColor", "foregroundColor", "title",
                 "securityState", "securityExtendedValidation",
                 "canGoBack", "canGoForward"}
  IN /\ \A k \in Listed : p[k] = Default[k]
     /\ \A k \in DOMAIN s \ Listed : p[k] = s[k]

\* C14 as amended: persistent resets the fields listed and isDark, and
\* leaves id, uri, userInput, zoom, isPinned, isFocused, isActive,
\* isSelected, icons, meta and contentOverflows as they are.
ResetsTransient ==
  LET s == items[1]
      p == persistent(items[1])
  IN /\ p.thumbnail = "undefined"
     /\ p.readyState = "undefined"
     /\ p.isLoading = FALSE
     /\ p.isConnecting = FALSE
     /\ p.startLoadingTime = -1
     /\ p.connectedTime = -1
     /\ p.endLoadingTime = -1
     /\ p.backgroundColor = "undefined"
     /\ p.foregroundColor = "undefined"
     /\ p.isDark = FALSE
     /\ p.title = "undefined"
     /\ p.securityState = "insecure"
     /\ p.securityExtendedValidation = FALSE
     /\ p.canGoBack = FALSE
     /\ p.canGoForward = FALSE
     /\ \A k \in {"id", "uri", "userInput", "zoom", "isPinned", "isFocused",
                  "isActive", "isSelected", "icons", "meta",
                  "contentOverflows"} : p[k] = s[k]
     /\ DOMAIN p = DOMAIN s
     /\ Cardinality(DOMAIN s) = 26

\* Every transient field is set and every field that is kept differs from
\* its default.
ResetsTransientWitness ==
  /\ items[1].isLoading
  /\ items[1].isConnecting
  /\ items[1].readyState = "loading"
  /\ items[1].startLoadingTime = 0
  /\ items[1].endLoadingTime = 0
  /\ items[1].isDark
  /\ items[1].backgroundColor = "#000"
  /\ items[1].title = "A page"
  /\ items[1].thumbnail = "blob:screenshot.png"
  /\ items[1].securityState = "secure"
  /\ items[1].canGoBack
  /\ items[1].canGoForward
  /\ items[1].isPinned
  /\ items[1].zoom = 20
  /\ items[1].userInput = "http://b.org/"
  /\ items[1].icons # <<>>
  /\ items[1].meta # <<>>
  /\ items[1].contentOverflows

\* C15: changeIcon puts the icon under its href, creating the map when the
\* view has none, adds no other entry and leaves the entries of other
\* hrefs as they are; every entry is keyed by its own href, and startLoad
\* drops the map.
IconUpsert ==
  /\ startLoad(items[1]).icons = <<>>
  /\ items[1].icons # <<>> =>
       \A href \in DOMAIN items[1].icons[1] :
         items[1].icons[1][href].href = href
  /\ \A icon \in Icons :
       LET before == IF items[1].icons = <<>> THEN <<>>
                     ELSE items[1].icons[1]
           after == changeIcon(icon, items[1]).icons
       IN /\ Len(after) = 1
          /\ DOMAIN after[1] = DOMAIN before \cup {icon.href}
          /\ after[1][icon.href] = icon
          /\ \A href \in DOMAIN before \ {icon.href} :
               after[1][href] = before[href]
          /\ changeIcon(icon, items[1]) =
               [items[1] EXCEPT !.icons = after]

\* Two hrefs have an icon; the one of a.ico is the icon of 32.
IconUpsertWitness ==
  /\ items[1].icons # <<>>
  /\ DOMAIN items[1].icons[1] = {"a.ico", "b.ico"}
  /\ items[1].icons[1]["a.ico"].sizes = "32"
  /\ items[1].isLoading

\* C18: a view that is connecting is loading.
ConnectingIsLoading ==
  items[1].isConnecting => items[1].isLoading

\* The view is connecting after a command and a field setter followed
\* startLoad.
ConnectingIsLoadingWitness ==
  /\ items[1].isConnecting
  /\ items[1].isLoading
  /\ items[1].readyState = "goBack"
  /\ items[1].title # None
  /\ items[1].canGoForward

\* C16: the deck mounts its views in ascending order of id, the same for
\* every order of items, and the edit of each mounted view is scoped to
\* the position of that view in items.
MountOrder ==
  LET m == mounted(items)
  IN /\ \A k \in DOMAIN m : k + 1 \in DOMAIN m => m[k].key < m[k + 1].key
     /\ {m[k].key : k \in DOMAIN m} = {items[i].id : i \in DOMAIN items}
     /\ \A f \in Permutations(DOMAIN items) :
          LET q == [i \in DOMAIN items |-> items[f[i]]]
          IN [k \in DOMAIN m |-> mounted(q)[k].key] =
             [k \in DOMAIN m |-> m[k].key]
     /\ \A k \in DOMAIN m :
          /\ m[k].edit \in DOMAIN items
          /\ items[m[k].edit].id = m[k].key
          /\ items[m[k].edit].uri = m[k].uri
          /\ m[k].key \in DOMAIN frames => frames[m[k].key].edit = m[k].edit

\* Three views show a page and the tabs are not in the order of the ids.
MountOrderWitness ==
  /\ Cardinality(DOMAIN frames) >= 3
  /\ \E i \in DOMAIN items : \E j \in DOMAIN items :
       i < j /\ items[i].id > items[j].id
  /\ mounted(items)[1].edit # 1

\* C19: with lookups and captures that complete, a task whose iframe has
\* emitted a loadend or a locationchange since the task started settles in
\* the end; a task whose lookup failed and whose iframe has emitted
\* neither since is pending and has requested no capture, whatever the
\* iframe emitted before the task started.
AcquisitionSettles ==
  /\ \A t \in 1..MaxTasks :
       (t \in DOMAIN tasks
        /\ (tasks[t].loaded.state = "resolved"
            \/ tasks[t].abort.state = "rejected"))
       ~> (t \in DOMAIN tasks
           /\ tasks[t].result.state \in {"resolved", "rejected"})
  /\ [](\A t \in DOMAIN tasks :
          /\ tasks[t].fetchThumbnail.state = "rejected"
          /\ tasks[t].loaded.state = "pending"
          /\ tasks[t].abort.state = "pending"
          => /\ tasks[t].result.state = "pending"
             /\ tasks[t].captures = 0)
  /\ [][\A t \in DOMAIN tasks' :
          t \notin DOMAIN tasks =>
            /\ tasks'[t].loaded.state = "pending"
            /\ tasks'[t].abort.state = "pending"
            /\ tasks'[t].result.state = "pending"]_vars

\* The load of the page had ended before the task started; the lookup of
\* the task failed and the task is pending.
AcquisitionSettlesWitness ==
  /\ items[1].readyState = "loaded"
  /\ items[1].endLoadingTime >= 0
  /\ \E t \in DOMAIN tasks :
       /\ tasks[t].fetchThumbnail.state = "rejected"
       /\ tasks[t].loaded.state = "pending"
       /\ tasks[t].abort.state = "pending"
       /\ tasks[t].result.state = "pending"

\* C17: a thumbnail that is set on a view is the result of a task that a
\* locationchange to the uri the view has now started on the iframe of the
\* view: no thumbnail of a page the view has left stays on the view.
ThumbnailOfLocation ==
  \A i \in DOMAIN items :
    items[i].thumbnail # None =>
      \E t \in DOMAIN tasks :
        /\ tasks[t].iframe = items[i].id
        /\ tasks[t].detail = items[i].uri
        /\ tasks[t].result.state = "resolved"
        /\ items[i].thumbnail = "blob:" \o tasks[t].result.value

====
